---------------------------- MODULE Spec2Model ----------------------------
(***************************************************************************)
(* A model of the research-paper summarization pipeline (src/main.py and   *)
(* src/app.py, which carry the same functions).                            *)
(*                                                                         *)
(* A Python str is a sequence of one-character strings, so that split(),   *)
(* strip(), lower(), the "in" substring test, the number regex and the     *)
(* sentence tokenizer are computed on characters and not assumed.          *)
(***************************************************************************)
EXTENDS Integers, Sequences, FiniteSets

VARIABLES
    pc,                        \* position of the run
    text,                      \* full_text / the text argument
    budget,                    \* the max_tokens / max_length argument
    chunks,                    \* result of chunk_text
    short_summary,             \* result of generate_short_summary
    data_points,               \* data points of extract_links_and_data
    listing,                   \* os.listdir(PDF_DIR), in the order iterated
    idx,                       \* number of directory entries taken by the for loop
    filename,                  \* the loop variable filename
    i,                         \* number of chunks the chunk loop has handled
    full_summary,              \* full_summary, a sequence of sections
    ev_disadvantages_summary,  \* ev_disadvantages_summary, a sequence of sections
    calls,                     \* the calls of the completion endpoint made for this file
    fs                         \* the output files: path -> what was written

vars == <<pc, text, budget, chunks, short_summary, data_points, listing, idx,
          filename, i, full_summary, ev_disadvantages_summary, calls, fs>>

----------------------------------------------------------------------------
(* Bounds of the model *)

MaxSents == 3    \* sentences in an input text
MaxWords == 3    \* words in an input sentence
MaxBudget == 3   \* budgets 0..MaxBudget are tried for max_tokens / max_length
MaxFiles == 2    \* entries of the input directory

\* The defaults the main loop runs with, scaled down so that a text of a few
\* words spans several chunks (3000 and 300 in the source).
MAX_TOKENS == 2
MAX_LENGTH == 2

----------------------------------------------------------------------------
(* Characters and strings *)

LowerLetters == <<"a","b","c","d","e","f","g","h","i","j","k","l","m",
                  "n","o","p","q","r","s","t","u","v","w","x","y","z">>
UpperLetters == <<"A","B","C","D","E","F","G","H","I","J","K","L","M",
                  "N","O","P","Q","R","S","T","U","V","W","X","Y","Z">>
Digits == {"0","1","2","3","4","5","6","7","8","9"}

Range(f) == {f[x] : x \in DOMAIN f}
Min(S) == CHOOSE x \in S : \A y \in S : x <= y
Max(S) == CHOOSE x \in S : \A y \in S : x >= y

IsSpace(c) == c \in {" ", "\n", "\t"}
IsDigit(c) == c \in Digits
\* \w of the regex: letters, digits and the underscore
IsWordChar(c) == c \in Range(LowerLetters) \cup Range(UpperLetters) \cup Digits \cup {"_"}

\* str.lower(), one character
lower_char(c) ==
    IF c \in Range(UpperLetters)
    THEN LowerLetters[CHOOSE k \in DOMAIN UpperLetters : UpperLetters[k] = c]
    ELSE c

\* str.lower()
lower(s) == [k \in 1..Len(s) |-> lower_char(s[k])]

\* str.strip()
strip(s) ==
    LET keep == {k \in 1..Len(s) : ~IsSpace(s[k])}
    IN IF keep = {} THEN <<>> ELSE SubSeq(s, Min(keep), Max(keep))

\* len(s.split()): the number of maximal runs of non-whitespace characters
split_len(s) ==
    Cardinality({k \in 1..Len(s) :
                    /\ ~IsSpace(s[k])
                    /\ (k = 1 \/ IsSpace(s[k-1]))})

\* kw in s
contains(s, kw) ==
    \E k \in 1..(Len(s) - Len(kw) + 1) : SubSeq(s, k, k + Len(kw) - 1) = kw

\* s.endswith(suffix)
endswith(s, suffix) ==
    /\ Len(s) >= Len(suffix)
    /\ SubSeq(s, Len(s) - Len(suffix) + 1, Len(s)) = suffix

RECURSIVE concat(_)
\* "".join(parts)
concat(parts) ==
    IF parts = <<>> THEN <<>> ELSE Head(parts) \o concat(Tail(parts))

RECURSIVE join(_, _)
\* sep.join(parts)
join(sep, parts) ==
    IF parts = <<>> THEN <<>>
    ELSE IF Len(parts) = 1 THEN parts[1]
    ELSE parts[1] \o sep \o join(sep, Tail(parts))

----------------------------------------------------------------------------
(* nltk's sent_tokenize: a sentence ends at a full stop that is followed by *)
(* whitespace or by the end of the text; the sentences come back without   *)
(* the whitespace between them, and blank pieces are no sentences.         *)

IsSentEnd(s, k) == s[k] = "." /\ (k = Len(s) \/ IsSpace(s[k+1]))

RECURSIVE sent_tokenize_from(_, _)
sent_tokenize_from(s, start) ==
    IF start > Len(s) THEN <<>>
    ELSE LET ends == {k \in start..Len(s) : IsSentEnd(s, k)}
             e == IF ends = {} THEN Len(s) ELSE Min(ends)
             piece == strip(SubSeq(s, start, e))
         IN (IF piece = <<>> THEN <<>> ELSE <<piece>>) \o sent_tokenize_from(s, e + 1)

sent_tokenize(s) == sent_tokenize_from(s, 1)

----------------------------------------------------------------------------
(* chunk_text *)

\* Mutant: the else branch overwrites the running chunk instead of extending it.
chunk_step_overwrite(st, sent, max_tokens) ==
    LET sent_tokens == split_len(sent)
    IN IF st.current_tokens + sent_tokens > max_tokens
       THEN [chunks |-> Append(st.chunks, st.current_chunk),
             current_chunk |-> sent, current_tokens |-> sent_tokens]
       ELSE [chunks |-> st.chunks,
             current_chunk |-> sent,
             current_tokens |-> st.current_tokens + sent_tokens]

\* Mutant: the budget is tested before the sentence is counted.
chunk_step_late(st, sent, max_tokens) ==
    LET sent_tokens == split_len(sent)
    IN IF st.current_tokens > max_tokens
       THEN [chunks |-> Append(st.chunks, st.current_chunk),
             current_chunk |-> sent, current_tokens |-> sent_tokens]
       ELSE [chunks |-> st.chunks,
             current_chunk |-> st.current_chunk \o <<" ">> \o sent,
             current_tokens |-> st.current_tokens + sent_tokens]

\* Mutant: a sentence that fills the budget exactly starts a new chunk.
chunk_step_eager(st, sent, max_tokens) ==
    LET sent_tokens == split_len(sent)
    IN IF st.current_tokens + sent_tokens >= max_tokens
       THEN [chunks |-> Append(st.chunks, st.current_chunk),
             current_chunk |-> sent, current_tokens |-> sent_tokens]
       ELSE [chunks |-> st.chunks,
             current_chunk |-> st.current_chunk \o <<" ">> \o sent,
             current_tokens |-> st.current_tokens + sent_tokens]

\* One iteration of the for loop of chunk_text
chunk_step(st, sent, max_tokens) ==
    LET sent_tokens == split_len(sent)
    IN IF st.current_tokens + sent_tokens > max_tokens
       THEN [chunks |-> Append(st.chunks, st.current_chunk),
             current_chunk |-> sent, current_tokens |-> sent_tokens]
       ELSE [chunks |-> st.chunks,
             current_chunk |-> st.current_chunk \o <<" ">> \o sent,
             current_tokens |-> st.current_tokens + sent_tokens]

RECURSIVE chunk_loop(_, _, _)
chunk_loop(st, sentences, max_tokens) ==
    IF sentences = <<>> THEN st
    ELSE chunk_loop(chunk_step(st, Head(sentences), max_tokens),
                    Tail(sentences), max_tokens)

chunk_text(t, max_tokens) ==
    LET sentences == sent_tokenize(t)
        st == chunk_loop([chunks |-> <<>>, current_chunk |-> <<>>, current_tokens |-> 0],
                         sentences, max_tokens)
    IN IF st.current_chunk # <<>>
       THEN Append(st.chunks, st.current_chunk)
       ELSE st.chunks

----------------------------------------------------------------------------
(* Input texts: sentences of 1..MaxWords words, each ended by a full stop,  *)
(* joined by single spaces.                                                *)

RECURSIVE SeqsUpTo(_, _)
\* the sequences over S of length 0..n
SeqsUpTo(S, n) ==
    IF n = 0 THEN {<<>>}
    ELSE LET shorter == SeqsUpTo(S, n - 1)
         IN shorter \cup {Append(q, x) : q \in shorter, x \in S}

\* every sentence of 1..MaxWords words of the pool
SentencesOver(pool) ==
    {join(<<" ">>, ws) \o <<".">> : ws \in SeqsUpTo(pool, MaxWords) \ {<<>>}}

\* the sentences that say one word of the pool 1..MaxWords times
SentencesRepeating(pool) ==
    {join(<<" ">>, [k \in 1..n |-> w]) \o <<".">> : w \in pool, n \in 1..MaxWords}

TextsOf(sentences) ==
    {join(<<" ">>, ss) : ss \in SeqsUpTo(sentences, MaxSents)}

ChunkPool == {<<"a">>, <<"b">>}

NoListing == <<>>
NoFs == <<>>

InitChunk ==
    /\ pc = "input"
    /\ text \in TextsOf(SentencesRepeating(ChunkPool))
    /\ budget \in 0..MaxBudget
    /\ chunks = <<>>
    /\ short_summary = <<>>
    /\ data_points = <<>>
    /\ listing = NoListing
    /\ idx = 0
    /\ filename = <<>>
    /\ i = 0
    /\ full_summary = <<>>
    /\ ev_disadvantages_summary = <<>>
    /\ calls = <<>>
    /\ fs = NoFs

\* chunks = chunk_text(text, max_tokens)
Chunk ==
    /\ pc = "input"
    /\ chunks' = chunk_text(text, budget)
    /\ pc' = "returned"
    /\ UNCHANGED <<text, budget, short_summary, data_points, listing, idx, filename,
                   i, full_summary, ev_disadvantages_summary, calls, fs>>

NextChunk == Chunk

SpecChunk == InitChunk /\ [][NextChunk]_vars

----------------------------------------------------------------------------
(* Properties of chunk_text *)

\* the sentences of the chunks, in chunk order
ChunkSentences(cs) == concat([k \in 1..Len(cs) |-> sent_tokenize(cs[k])])

\* C1: reading the sentences of the returned chunks in chunk order, and in order
\* inside each chunk, yields exactly the original sentence sequence: nothing is
\* lost, duplicated or reordered.
C1_ChunksPreserveSentences ==
    pc = "returned" => ChunkSentences(chunks) = sent_tokenize(text)

C1_Witness ==
    /\ pc = "returned"
    /\ Len(chunks) >= 2
    /\ \E k \in 1..Len(chunks) : Len(sent_tokenize(chunks[k])) >= 2

\* C2: every returned chunk has a word count <= max_tokens or is exactly one
\* sentence whose own word count exceeds max_tokens; a sentence longer than the
\* budget is in a chunk of its own, whole.
C2_ChunksWithinBudget ==
    pc = "returned" =>
        /\ \A k \in 1..Len(chunks) :
              \/ split_len(chunks[k]) <= budget
              \/ /\ Len(sent_tokenize(chunks[k])) = 1
                 /\ split_len(sent_tokenize(chunks[k])[1]) > budget
        /\ LET ss == sent_tokenize(text)
           IN \A n \in 1..Len(ss) :
                 split_len(ss[n]) > budget =>
                     \E k \in 1..Len(chunks) : strip(chunks[k]) = ss[n]

C2_Witness ==
    /\ pc = "returned"
    /\ \E k \in 1..Len(chunks) : split_len(chunks[k]) > budget
    /\ \E k \in 1..Len(chunks) :
          Len(sent_tokenize(chunks[k])) >= 2 /\ split_len(chunks[k]) = budget

\* C9: chunk_text is greedy: for every two consecutive chunks, the word count of
\* the earlier one plus the word count of the first sentence of the later one is
\* > max_tokens, so a sentence that fits is never moved to a new chunk.
C9_Greedy ==
    pc = "returned" =>
        \A k \in 1..(Len(chunks) - 1) :
            /\ sent_tokenize(chunks[k+1]) # <<>>
            /\ split_len(chunks[k]) + split_len(sent_tokenize(chunks[k+1])[1]) > budget

C9_Witness ==
    /\ pc = "returned"
    /\ Len(chunks) >= 2
    /\ \E k \in 1..(Len(chunks) - 1) :
          /\ split_len(chunks[k]) = budget
          /\ Len(sent_tokenize(chunks[k])) >= 2

\* C10: every chunk returned by chunk_text contains at least one sentence, so
\* there are at most as many chunks as sentences.
C10_NoEmptyChunk ==
    pc = "returned" =>
        /\ \A k \in 1..Len(chunks) : sent_tokenize(chunks[k]) # <<>>
        /\ Len(chunks) <= Len(sent_tokenize(text))

----------------------------------------------------------------------------
(* generate_short_summary *)

\* KEYWORDS of the info module (listed in the header of src/main.py): lower-case
\* phrases; one short phrase stands for the list.
KEYWORDS == << <<"e","v">> >>

\* any(kw in sent.lower() for kw in KEYWORDS)
any_kw_in(sent) == \E n \in 1..Len(KEYWORDS) : contains(lower(sent), KEYWORDS[n])

\* [sent for sent in sentences if any(kw in sent.lower() for kw in KEYWORDS)]
ev_sentences_of(sentences) == SelectSeq(sentences, any_kw_in)

\* Mutant: the budget is tested before the sentence is counted.
short_step_late(st, sent, max_length) ==
    LET words == split_len(sent)
    IN IF st.broken THEN st
       ELSE IF st.current_length <= max_length
       THEN [short_summary |-> st.short_summary \o sent \o <<" ">>,
             current_length |-> st.current_length + words, broken |-> FALSE]
       ELSE [st EXCEPT !.broken = TRUE]

\* Mutant: a sentence that does not fit is skipped and the loop goes on.
short_step_continue(st, sent, max_length) ==
    LET words == split_len(sent)
    IN IF st.current_length + words <= max_length
       THEN [short_summary |-> st.short_summary \o sent \o <<" ">>,
             current_length |-> st.current_length + words, broken |-> FALSE]
       ELSE st

\* One iteration of the for loop of generate_short_summary; broken: the loop
\* has been left by break.
short_step(st, sent, max_length) ==
    LET words == split_len(sent)
    IN IF st.broken THEN st
       ELSE IF st.current_length + words <= max_length
       THEN [short_summary |-> st.short_summary \o sent \o <<" ">>,
             current_length |-> st.current_length + words, broken |-> FALSE]
       ELSE [st EXCEPT !.broken = TRUE]

RECURSIVE short_loop(_, _, _)
short_loop(st, sentences, max_length) ==
    IF sentences = <<>> THEN st
    ELSE short_loop(short_step(st, Head(sentences), max_length),
                    Tail(sentences), max_length)

generate_short_summary(t, max_length) ==
    LET sentences == sent_tokenize(t)
        ev_sentences == ev_sentences_of(sentences)
        st == short_loop([short_summary |-> <<>>, current_length |-> 0, broken |-> FALSE],
                         ev_sentences, max_length)
    IN strip(st.short_summary)

\* "x": no keyword; "nEv": the keyword inside a word, in another case.
ShortPool == {<<"x">>, <<"n","E","v">>}

InitShort ==
    /\ pc = "input"
    /\ text \in TextsOf(SentencesRepeating(ShortPool))
    /\ budget \in 0..MaxBudget
    /\ chunks = <<>>
    /\ short_summary = <<>>
    /\ data_points = <<>>
    /\ listing = NoListing
    /\ idx = 0
    /\ filename = <<>>
    /\ i = 0
    /\ full_summary = <<>>
    /\ ev_disadvantages_summary = <<>>
    /\ calls = <<>>
    /\ fs = NoFs

\* short_summary = generate_short_summary(text, max_length)
Short ==
    /\ pc = "input"
    /\ short_summary' = generate_short_summary(text, budget)
    /\ pc' = "returned"
    /\ UNCHANGED <<text, budget, chunks, data_points, listing, idx, filename,
                   i, full_summary, ev_disadvantages_summary, calls, fs>>

NextShort == Short

SpecShort == InitShort /\ [][NextShort]_vars

----------------------------------------------------------------------------
(* Properties of generate_short_summary *)

\* s holds kw at position k, whatever the case of the letters
HoldsAt(s, kw, k) ==
    /\ k + Len(kw) - 1 <= Len(s)
    /\ \A m \in 1..Len(kw) : lower_char(s[k + m - 1]) = lower_char(kw[m])

\* s contains a keyword as a case-insensitive substring
MatchesKeyword(s) ==
    \E n \in 1..Len(KEYWORDS) : \E k \in 1..Len(s) : HoldsAt(s, KEYWORDS[n], k)

\* the keyword-matching sentences of the text, in order
MatchingSentences == SelectSeq(sent_tokenize(text), MatchesKeyword)

RECURSIVE WordsOfFirst(_, _)
\* the word count of the first n sentences of ss
WordsOfFirst(ss, n) ==
    IF n = 0 THEN 0 ELSE WordsOfFirst(ss, n - 1) + split_len(ss[n])

\* the longest prefix of ss whose word count is <= b
LongestPrefixWithin(ss, b) ==
    SubSeq(ss, 1, Max({n \in 0..Len(ss) : WordsOfFirst(ss, n) <= b}))

\* C4: the result of generate_short_summary contains only sentences that match a
\* keyword, and its total word count is <= max_length.
C4_ShortSummaryOnlyKeywordsWithinBudget ==
    pc = "returned" =>
        /\ \A n \in 1..Len(sent_tokenize(short_summary)) :
              /\ MatchesKeyword(sent_tokenize(short_summary)[n])
              /\ sent_tokenize(short_summary)[n] \in Range(sent_tokenize(text))
        /\ split_len(short_summary) <= budget

\* the first matching sentence alone is longer than the budget: the result is empty
C4_Witness ==
    /\ pc = "returned"
    /\ MatchingSentences # <<>>
    /\ split_len(MatchingSentences[1]) > budget
    /\ short_summary = <<>>
    /\ Len(sent_tokenize(text)) > Len(MatchingSentences)

\* C5: the selected sentences are exactly the longest prefix of the sequence of
\* keyword-matching sentences whose cumulative word count is <= max_length, each
\* included whole, and nothing after the first one that does not fit.
C5_ShortSummaryLongestPrefix ==
    pc = "returned" =>
        /\ sent_tokenize(short_summary) = LongestPrefixWithin(MatchingSentences, budget)
        /\ short_summary = join(<<" ">>, LongestPrefixWithin(MatchingSentences, budget))

\* a later matching sentence would have fitted, and is left out all the same
C5_Witness ==
    /\ pc = "returned"
    /\ short_summary # <<>>
    /\ Len(MatchingSentences) >= 3
    /\ Len(sent_tokenize(short_summary)) = 1
    /\ split_len(short_summary) + split_len(MatchingSentences[3]) <= budget

----------------------------------------------------------------------------
(* extract_links_and_data: the data points *)

\* \b of the regex before position k (1..Len(s)+1): exactly one of the
\* characters on its two sides is a word character
word_boundary(s, k) ==
    (k > 1 /\ IsWordChar(s[k-1])) # (k <= Len(s) /\ IsWordChar(s[k]))

\* the position after the longest run of digits that starts at k
digits_end(s, k) ==
    Min({m \in k..(Len(s) + 1) : m = Len(s) + 1 \/ ~IsDigit(s[m])})

\* A match of \b\d+(\.\d+)?\b that starts at k, as the set of its outcomes (empty:
\* no match): tok is the text matched, group what the one group captured ("" when
\* the group took no part), end the position after the match.  The digit runs are
\* greedy, and a shorter run never matches: it would end between two digits, where
\* there is no \b and no "." for the group.
number_match_at(s, k) ==
    IF ~(k <= Len(s) /\ IsDigit(s[k]) /\ word_boundary(s, k)) THEN {}
    ELSE LET j == digits_end(s, k)
             with_group == j + 1 <= Len(s) /\ s[j] = "." /\ IsDigit(s[j+1])
             e == IF with_group THEN digits_end(s, j + 1) ELSE j
         IN IF with_group /\ word_boundary(s, e)
            THEN {[tok |-> SubSeq(s, k, e - 1), group |-> SubSeq(s, j, e - 1), end |-> e]}
            ELSE IF word_boundary(s, j)
            THEN {[tok |-> SubSeq(s, k, j - 1), group |-> <<>>, end |-> j]}
            ELSE {}

RECURSIVE number_matches_from(_, _)
\* the matches of the regex in s from position k on, left to right, not overlapping
number_matches_from(s, k) ==
    IF k > Len(s) THEN <<>>
    ELSE LET m == number_match_at(s, k)
         IN IF m = {} THEN number_matches_from(s, k + 1)
            ELSE LET r == CHOOSE r \in m : TRUE
                 IN <<r>> \o number_matches_from(s, r.end)

\* re.findall(r'\b\d+(\.\d+)?\b', s): the pattern has one group, so findall
\* returns, for each match, what the group captured
re_findall_numbers(s) ==
    LET ms == number_matches_from(s, 1) IN [n \in 1..Len(ms) |-> ms[n].group]

\* f"{num} -> {sentence.strip()}"
data_point(num, sentence) == num \o <<" ","-",">"," ">> \o strip(sentence)

\* the for loop over the sentences: one entry per element of numbers
data_points_of(t) ==
    LET sentences == sent_tokenize(t)
    IN concat([n \in 1..Len(sentences) |->
                  LET numbers == re_findall_numbers(sentences[n])
                  IN [m \in 1..Len(numbers) |-> data_point(numbers[m], sentences[n])]])

ExtractPool == {<<"x">>, <<"7">>, <<"4",".","5">>}

InitExtract ==
    /\ pc = "input"
    /\ text \in TextsOf(SentencesOver(ExtractPool))
    /\ budget = 0
    /\ chunks = <<>>
    /\ short_summary = <<>>
    /\ data_points = <<>>
    /\ listing = NoListing
    /\ idx = 0
    /\ filename = <<>>
    /\ i = 0
    /\ full_summary = <<>>
    /\ ev_disadvantages_summary = <<>>
    /\ calls = <<>>
    /\ fs = NoFs

\* urls, data_points, references = extract_links_and_data(text)
Extract ==
    /\ pc = "input"
    /\ data_points' = data_points_of(text)
    /\ pc' = "returned"
    /\ UNCHANGED <<text, budget, chunks, short_summary, listing, idx, filename,
                   i, full_summary, ev_disadvantages_summary, calls, fs>>

NextExtract == Extract

SpecExtract == InitExtract /\ [][NextExtract]_vars

----------------------------------------------------------------------------
(* Properties of extract_links_and_data *)

\* the number tokens of a sentence: the texts the regex matches
NumberTokens(sentence) ==
    LET ms == number_matches_from(sentence, 1) IN [n \in 1..Len(ms) |-> ms[n].tok]

\* C7: for every sentence and every number token found in it there is exactly one
\* data point, which pairs that number token with the sentence; a sentence with k
\* number tokens is in exactly k entries.
C7_DataPointsPairNumberWithSentence ==
    pc = "returned" =>
        data_points =
            LET sentences == sent_tokenize(text)
            IN concat([n \in 1..Len(sentences) |->
                          [m \in 1..Len(NumberTokens(sentences[n])) |->
                              NumberTokens(sentences[n])[m]
                                  \o <<" ","-",">"," ">> \o sentences[n]]])

----------------------------------------------------------------------------
(* summarize_with_groq *)

FAILED_MESSAGE == <<"Failed to summarize due to API error.">>

\* What client.chat.completions.create can do: return a completion with some
\* content, or raise.
Replies == {[ok |-> TRUE, content |-> <<" ", "S", "\n">>],
            [ok |-> FALSE, content |-> <<>>]}

\* the request of one call: the fixed model name and generation parameters, and
\* the prompt, which is fixed but for the context and the text
request(t, context) ==
    [model |-> "llama-3.3-70b-specdec", temperature |-> "0.7", max_tokens |-> 4096,
     context |-> context, text |-> t]

\* one call of client.chat.completions.create: what is sent, and whether it
\* returned (ok) or raised
call(t, context, reply) == [request |-> request(t, context), ok |-> reply.ok]

\* Mutant: no try/except around the call, so a failure leaves the function as
\* an exception.
summarize_with_groq_raising(t, context, reply) ==
    IF reply.ok
    THEN [raised |-> FALSE, value |-> strip(reply.content)]
    ELSE [raised |-> TRUE, value |-> <<>>]

\* summarize_with_groq(text, context), given what the call does: the value
\* returned, and whether an exception leaves the function
summarize_with_groq(t, context, reply) ==
    IF reply.ok
    THEN [raised |-> FALSE, value |-> strip(reply.content)]
    ELSE [raised |-> FALSE, value |-> FAILED_MESSAGE]

----------------------------------------------------------------------------
(* The main loop *)

\* Mutant: the EV call is made for every chunk, without the test of ev_sentences.
chunk_iteration_always_ev(st, n, chunk, reply1, reply2) ==
    LET full == summarize_with_groq(chunk, "Full PDF Summary", reply1)
        ev_sentences == ev_sentences_of(sent_tokenize(chunk))
        ev_text == join(<<" ">>, ev_sentences)
        ev == summarize_with_groq(ev_text, "EV Disadvantages Only", reply2)
    IN [full_summary |-> Append(st.full_summary,
                           [header |-> <<"Chunk", n + 1, "Summary">>, body |-> full.value]),
        ev_disadvantages_summary |-> Append(st.ev_disadvantages_summary,
                           [header |-> <<"Chunk", n + 1, "EV Disadvantages">>,
                            body |-> ev.value]),
        calls |-> st.calls \o <<call(chunk, "Full PDF Summary", reply1),
                                call(ev_text, "EV Disadvantages Only", reply2)>>,
        raised |-> FALSE]

\* The body of "for i, chunk in enumerate(chunks)" for i = n, given what the one
\* or two calls do.  raised: an exception left summarize_with_groq; the
\* assignment it interrupts, and what follows it, do not happen.
chunk_iteration(st, n, chunk, reply1, reply2) ==
    LET full == summarize_with_groq(chunk, "Full PDF Summary", reply1)
        ev_sentences == ev_sentences_of(sent_tokenize(chunk))
        ev_text == join(<<" ">>, ev_sentences)
        ev == summarize_with_groq(ev_text, "EV Disadvantages Only", reply2)
        calls1 == Append(st.calls, call(chunk, "Full PDF Summary", reply1))
        full1 == Append(st.full_summary,
                        [header |-> <<"Chunk", n + 1, "Summary">>, body |-> full.value])
    IN IF full.raised
       THEN [full_summary |-> Append(st.full_summary,
                                     [header |-> <<"Chunk", n + 1, "Summary">>]),
             ev_disadvantages_summary |-> st.ev_disadvantages_summary,
             calls |-> calls1, raised |-> TRUE]
       ELSE IF ev_sentences = <<>>
       THEN [full_summary |-> full1,
             ev_disadvantages_summary |-> st.ev_disadvantages_summary,
             calls |-> calls1, raised |-> FALSE]
       ELSE IF ev.raised
       THEN [full_summary |-> full1,
             ev_disadvantages_summary |-> Append(st.ev_disadvantages_summary,
                                    [header |-> <<"Chunk", n + 1, "EV Disadvantages">>]),
             calls |-> Append(calls1, call(ev_text, "EV Disadvantages Only", reply2)),
             raised |-> TRUE]
       ELSE [full_summary |-> full1,
             ev_disadvantages_summary |-> Append(st.ev_disadvantages_summary,
                                    [header |-> <<"Chunk", n + 1, "EV Disadvantages">>,
                                     body |-> ev.value]),
             calls |-> Append(calls1, call(ev_text, "EV Disadvantages Only", reply2)),
             raised |-> FALSE]

PDF_EXT == <<".", "p", "d", "f">>

\* os.path.splitext(name)[0]: the name up to its last dot, a dot that only
\* dots precede being no extension dot
splitext_root(name) ==
    LET dots == {k \in 2..Len(name) :
                    name[k] = "." /\ \E m \in 1..(k - 1) : name[m] # "."}
    IN IF dots = {} THEN name ELSE SubSeq(name, 1, Max(dots) - 1)

SUMMARY_TXT == <<"_","s","u","m","m","a","r","y",".","t","x","t">>
SUMMARY_MD == <<"_","s","u","m","m","a","r","y",".","m","d">>
SHORT_SUMMARY_TXT == <<"_","s","h","o","r","t">> \o SUMMARY_TXT
SHORT_SUMMARY_MD == <<"_","s","h","o","r","t">> \o SUMMARY_MD

\* os.path.join(SUMMARIES_DIR, base_filename, f"{base_filename}_summary.txt") and
\* the three other paths
txt_output_path(name) ==
    [dir |-> "Summaries", folder |-> splitext_root(name),
     file |-> splitext_root(name) \o SUMMARY_TXT]
md_output_path(name) ==
    [dir |-> "Summaries", folder |-> splitext_root(name),
     file |-> splitext_root(name) \o SUMMARY_MD]
short_txt_output_path(name) ==
    [dir |-> "Short_Summary", folder |-> splitext_root(name),
     file |-> splitext_root(name) \o SHORT_SUMMARY_TXT]
short_md_output_path(name) ==
    [dir |-> "Short_Summary", folder |-> splitext_root(name),
     file |-> splitext_root(name) \o SHORT_SUMMARY_MD]

output_paths(name) ==
    {txt_output_path(name), md_output_path(name),
     short_txt_output_path(name), short_md_output_path(name)}

\* The four files as the two with blocks leave them: each is opened with "w",
\* and holds, in order, what was written to it.  (The extracted links and
\* references, also written to the .txt file, are not part of the model.)
output_files(name, full, ev, points, short) ==
    [p \in output_paths(name) |->
        IF p = txt_output_path(name)
        THEN <<[title |-> "File", content |-> name],
               [title |-> "Full Summary", content |-> full],
               [title |-> "EV Disadvantages Summary", content |-> ev],
               [title |-> "Extracted Data Points", content |-> points]>>
        ELSE IF p = md_output_path(name)
        THEN <<>>
        ELSE <<[title |-> "File", content |-> name],
               [title |-> "Short Summary", content |-> short]>>]

\* The entries of the input directory
NamePool == {<<"a">> \o PDF_EXT, <<"b">> \o PDF_EXT, <<"c", ".", "t", "x", "t">>}

Listings == {l \in SeqsUpTo(NamePool, MaxFiles) : Cardinality(Range(l)) = Len(l)}

Sentence(ws) == join(<<" ">>, ws) \o <<".">>
W == <<"x">>
K == <<"E", "v">>

\* The texts extract_text_from_pdf returns: empty; one sentence; several chunks one
\* of which has a keyword; a first sentence longer than the (scaled) budget.
MainTexts ==
    {<<>>,
     Sentence(<<W>>),
     join(<<" ">>, <<Sentence(<<W, W>>), Sentence(<<K, W>>), Sentence(<<W>>)>>),
     join(<<" ">>, <<Sentence(<<W, W, W, W>>), Sentence(<<K>>)>>)}

InitMain ==
    /\ pc = "scan"
    /\ listing \in Listings
    /\ idx = 0
    /\ filename = <<>>
    /\ text = <<>>
    /\ budget = MAX_TOKENS
    /\ chunks = <<>>
    /\ short_summary = <<>>
    /\ data_points = <<>>
    /\ i = 0
    /\ full_summary = <<>>
    /\ ev_disadvantages_summary = <<>>
    /\ calls = <<>>
    /\ fs = NoFs

\* for filename in os.listdir(PDF_DIR): an entry that does not end with ".pdf"
SkipFile ==
    /\ pc = "scan"
    /\ idx < Len(listing)
    /\ ~endswith(listing[idx + 1], PDF_EXT)
    /\ idx' = idx + 1
    /\ filename' = listing[idx + 1]
    /\ UNCHANGED <<pc, text, budget, chunks, short_summary, data_points, listing, i,
                   full_summary, ev_disadvantages_summary, calls, fs>>

\* ... an entry that ends with ".pdf": the text is extracted, the data points are
\* extracted, the text is chunked and the summaries start empty
OpenFile ==
    /\ pc = "scan"
    /\ idx < Len(listing)
    /\ endswith(listing[idx + 1], PDF_EXT)
    /\ \E t \in MainTexts :
          /\ text' = t
          /\ data_points' = data_points_of(t)
          /\ chunks' = chunk_text(t, MAX_TOKENS)
    /\ idx' = idx + 1
    /\ filename' = listing[idx + 1]
    /\ full_summary' = <<>>
    /\ ev_disadvantages_summary' = <<>>
    /\ i' = 0
    /\ calls' = <<>>
    /\ pc' = "chunks"
    /\ UNCHANGED <<budget, short_summary, listing, fs>>

\* one iteration of the chunk loop
SummarizeChunk ==
    /\ pc = "chunks"
    /\ i < Len(chunks)
    /\ \E reply1 \in Replies, reply2 \in Replies :
          LET st == chunk_iteration(
                        [full_summary |-> full_summary,
                         ev_disadvantages_summary |-> ev_disadvantages_summary,
                         calls |-> calls],
                        i, chunks[i + 1], reply1, reply2)
          IN /\ full_summary' = st.full_summary
             /\ ev_disadvantages_summary' = st.ev_disadvantages_summary
             /\ calls' = st.calls
             /\ pc' = IF st.raised THEN "crashed" ELSE "chunks"
             /\ i' = IF st.raised THEN i ELSE i + 1
    /\ UNCHANGED <<text, budget, chunks, short_summary, data_points, listing, idx,
                   filename, fs>>

\* after the chunk loop: the folders, the short summary and the four files
WriteOutputs ==
    /\ pc = "chunks"
    /\ i = Len(chunks)
    /\ short_summary' = generate_short_summary(text, MAX_LENGTH)
    /\ LET new == output_files(filename, full_summary, ev_disadvantages_summary,
                               data_points, short_summary')
       IN fs' = [p \in DOMAIN fs \cup DOMAIN new |->
                    IF p \in DOMAIN new THEN new[p] ELSE fs[p]]
    /\ pc' = "scan"
    /\ UNCHANGED <<text, budget, chunks, data_points, listing, idx, filename, i,
                   full_summary, ev_disadvantages_summary, calls>>

\* the directory is exhausted
Finish ==
    /\ pc = "scan"
    /\ idx = Len(listing)
    /\ pc' = "done"
    /\ UNCHANGED <<text, budget, chunks, short_summary, data_points, listing, idx,
                   filename, i, full_summary, ev_disadvantages_summary, calls, fs>>

NextMain == SkipFile \/ OpenFile \/ SummarizeChunk \/ WriteOutputs \/ Finish

SpecMain == InitMain /\ [][NextMain]_vars

----------------------------------------------------------------------------
(* Properties of the main loop *)

IsFullCall(c) == c.request.context = "Full PDF Summary"
FullCalls == SelectSeq(calls, IsFullCall)

\* the chunk loop of the current file has ended
LoopEnded == pc = "chunks" /\ i = Len(chunks)

\* the current file is a .pdf file whose outputs have just been written
JustWritten == pc = "scan" /\ idx > 0 /\ endswith(filename, PDF_EXT)

\* what a file holds under a title
Held(content, title) ==
    {content[n].content : n \in {m \in 1..Len(content) : content[m].title = title}}

\* C3: a failing LLM call never aborts the run: each failed call yields the fixed
\* placeholder, the loop goes on, the full summary has exactly one "Chunk n
\* Summary" section per chunk, in increasing n, and the outputs of every .pdf file
\* are written.
C3_FailureNeverAborts ==
    /\ pc # "crashed"
    /\ idx <= Len(listing) /\ i <= Len(chunks)
    /\ pc = "chunks" =>
          /\ Len(full_summary) = i
          /\ Len(FullCalls) = i
          /\ \A n \in 1..i :
                /\ full_summary[n].header = <<"Chunk", n, "Summary">>
                /\ FullCalls[n].request.text = chunks[n]
                /\ ~FullCalls[n].ok =>
                      full_summary[n].body = <<"Failed to summarize due to API error.">>
    /\ JustWritten =>
          /\ Len(full_summary) = Len(chunks)
          /\ \A n \in 1..Len(chunks) : full_summary[n].header = <<"Chunk", n, "Summary">>
          /\ txt_output_path(filename) \in DOMAIN fs
          /\ Held(fs[txt_output_path(filename)], "Full Summary") = {full_summary}
    /\ pc = "done" =>
          \A n \in 1..Len(listing) :
              endswith(listing[n], PDF_EXT) => output_paths(listing[n]) \subseteq DOMAIN fs

\* two .pdf files were processed to the end although the first call of the last
\* one failed and a later one succeeded
C3_Witness ==
    /\ pc = "done"
    /\ Cardinality(DOMAIN fs) = 8
    /\ Len(full_summary) >= 2
    /\ ~FullCalls[1].ok
    /\ full_summary[1].body = FAILED_MESSAGE
    /\ FullCalls[2].ok
    /\ full_summary[2].body = <<"S">>

\* a chunk has a sentence with a keyword
HasKeywordSentence(chunk) ==
    \E n \in 1..Len(sent_tokenize(chunk)) : MatchesKeyword(sent_tokenize(chunk)[n])

\* C6, as claimed: for a file of n chunks exactly n calls are made.
C6_OneCallPerChunk ==
    LoopEnded => Len(calls) = Len(chunks)

\* C6, amended: after i chunks, i "Full PDF Summary" calls have been made, one per
\* chunk and in chunk order, and one "EV Disadvantages Only" call more for each
\* chunk with a keyword-matching sentence; every call has the same fixed model
\* name and generation parameters.
C6_CallsPerChunk ==
    pc = "chunks" =>
        /\ Len(calls) = i + Cardinality({n \in 1..i : HasKeywordSentence(chunks[n])})
        /\ Len(FullCalls) = i
        /\ \A n \in 1..i : FullCalls[n].request.text = chunks[n]
        /\ \A n \in 1..Len(calls) :
              /\ calls[n].request.model = "llama-3.3-70b-specdec"
              /\ calls[n].request.temperature = "0.7"
              /\ calls[n].request.max_tokens = 4096

C6_Witness ==
    /\ LoopEnded
    /\ Len(chunks) >= 2
    /\ \E n \in 1..Len(chunks) : HasKeywordSentence(chunks[n])
    /\ \E n \in 1..Len(chunks) : ~HasKeywordSentence(chunks[n])
    /\ Len(calls) > Len(chunks)

\* C8: once a .pdf file has been processed, Summaries/<base>/ holds a detailed
\* summary .txt and .md file and Short_Summary/<base>/ a short summary .txt and
\* .md file, each with the summary produced for that file; entries that do not
\* end with ".pdf" produce no output.
C8_FourFilesHoldTheSummaries ==
    /\ JustWritten =>
          /\ output_paths(filename) \subseteq DOMAIN fs
          /\ full_summary \in Held(fs[txt_output_path(filename)], "Full Summary")
          /\ full_summary \in Held(fs[md_output_path(filename)], "Full Summary")
          /\ short_summary \in Held(fs[short_txt_output_path(filename)], "Short Summary")
          /\ short_summary \in Held(fs[short_md_output_path(filename)], "Short Summary")
    /\ \A p \in DOMAIN fs :
          \E n \in 1..idx : endswith(listing[n], PDF_EXT) /\ p \in output_paths(listing[n])

=============================================================================
